---- MODULE Spec2Model ----
(***************************************************************************)
(* The level editor of src/src/edit_plugin.rs: the EditingState resource,  *)
(* the cursor with its cooldown timer, the entities spawned and despawned  *)
(* through Commands, and the system handle_edit_input that runs once per   *)
(* frame while the game is in the Editing state.                           *)
(***************************************************************************)
EXTENDS Integers, FiniteSets, Sequences, TLC

\* ---------------------------------------------------------------- bounds
\* The cursor is kept on the cells 0..MaxX by 0..MaxY (walls reach one cell
\* further out on every side).
MaxX == 1
MaxY == 0
\* Entity ids handed out in one session: enough for two floors and two
\* occupants.
MaxEntities == 17
\* Greatest frame time, in tenths of a second.
MaxDelta == 2
\* Greatest number of keys held down in one frame; command keys may be held
\* one more at a time.
MaxKeys == 1
\* Cells over which the arbitrary editing states of SpecAny are drawn.
MaxCells == 3

\* ------------------------------------------------------------- constants
\* Timer::from_seconds(0.2, TimerMode::Once), in tenths of a second.
TimerDuration == 2
\* Side of a tile in world units (crate::TILE_SIZE).
TILE_SIZE == 16

Keys == {"E", "Up", "Down", "Left", "Right", "Z", "X", "C", "V", "S"}
\* The keys of the if / else-if chain of editing commands.
CommandKeys == {"Z", "X", "C", "V", "S"}
\* What keyboard_input can hold in one frame: up to MaxKeys keys of any kind,
\* or up to MaxKeys + 1 command keys.
KeySets ==
    {ks \in SUBSET Keys :
        \/ Cardinality(ks) <= MaxKeys
        \/ ks \subseteq CommandKeys /\ Cardinality(ks) <= MaxKeys + 1}
Deltas == 0..MaxDelta

\* Option::None, for the player slot, a movement, a removed entity, a level.
None == <<>>

VARIABLES
    editing_state,  \* the EditingState resource
    cursor,         \* the Cursor component and the translation of its Transform
    entities,       \* the entities alive in the world
    next_entity,    \* the next entity id the world hands out
    dbg,            \* what this frame's dbg!(serialize()) printed, or None
    despawned,      \* the entities this frame's Commands despawned
    panicked,       \* a panic unwound out of the system
    pending         \* the offsets a neighbour loop in progress has yet to visit

vars == <<editing_state, cursor, entities, next_entity, dbg, despawned, panicked,
          pending>>

\* --------------------------------------------------------------- Position
Pos(x, y) == [x |-> x, y |-> y]

\* Position::add
add(position, dx, dy) == Pos(position.x + dx, position.y + dy)

\* Position::to_translation: world y grows upwards, grid y downwards.
to_translation(position) == <<position.x * TILE_SIZE, -(position.y * TILE_SIZE)>>

\* Position::from_translation
from_translation(translation) ==
    Pos(translation[1] \div TILE_SIZE, (-translation[2]) \div TILE_SIZE)

\* ------------------------------------------------------------ EditingState
\* HashMap helpers: a map is a function from the positions it holds.
contains_key(map, position) == position \in DOMAIN map

insert(map, position, entity) ==
    [q \in (DOMAIN map) \cup {position} |-> IF q = position THEN entity ELSE map[q]]

remove(map, position) == [q \in (DOMAIN map) \ {position} |-> map[q]]

EmptyMap == [q \in {} |-> 0]

\* EditingState::default()
DefaultEditingState ==
    [floors |-> EmptyMap, walls |-> EmptyMap, blocks |-> EmptyMap,
     goals |-> EmptyMap, player |-> None]

\* Variant: the floors map is not consulted.
can_place_ignores_floor(es, position) ==
    /\ ~contains_key(es.blocks, position)
    /\ ~contains_key(es.goals, position)
    /\ (IF es.player = None THEN TRUE ELSE es.player[1] # position)

\* Variant: the goals map is not consulted.
can_place_ignores_goals(es, position) ==
    /\ contains_key(es.floors, position)
    /\ ~contains_key(es.blocks, position)
    /\ (IF es.player = None THEN TRUE ELSE es.player[1] # position)

\* Variant: the player slot is not consulted.
can_place_ignores_player(es, position) ==
    /\ contains_key(es.floors, position)
    /\ ~contains_key(es.blocks, position)
    /\ ~contains_key(es.goals, position)

can_place(es, position) ==
    /\ contains_key(es.floors, position)
    /\ ~contains_key(es.blocks, position)
    /\ ~contains_key(es.goals, position)
    /\ (IF es.player = None THEN TRUE ELSE es.player[1] # position)

\* Variant: the goals map is looked up before the blocks map.
remove_object_goal_first(es, position) ==
    IF contains_key(es.goals, position)
    THEN [state |-> [es EXCEPT !.goals = remove(es.goals, position)],
          removed |-> <<es.goals[position]>>]
    ELSE IF contains_key(es.blocks, position)
    THEN [state |-> [es EXCEPT !.blocks = remove(es.blocks, position)],
          removed |-> <<es.blocks[position]>>]
    ELSE IF (IF es.player # None THEN es.player[1] = position ELSE FALSE)
    THEN [state |-> [es EXCEPT !.player = None],
          removed |-> <<es.player[2]>>]
    ELSE [state |-> es, removed |-> None]

\* Variant: the player entity is returned but the slot is not cleared.
remove_object_keeps_player(es, position) ==
    IF contains_key(es.blocks, position)
    THEN [state |-> [es EXCEPT !.blocks = remove(es.blocks, position)],
          removed |-> <<es.blocks[position]>>]
    ELSE IF contains_key(es.goals, position)
    THEN [state |-> [es EXCEPT !.goals = remove(es.goals, position)],
          removed |-> <<es.goals[position]>>]
    ELSE IF (IF es.player # None THEN es.player[1] = position ELSE FALSE)
    THEN [state |-> es, removed |-> <<es.player[2]>>]
    ELSE [state |-> es, removed |-> None]

\* Variant: with no occupant on the cell, its floor is removed and returned.
remove_object_takes_floor(es, position) ==
    IF contains_key(es.blocks, position)
    THEN [state |-> [es EXCEPT !.blocks = remove(es.blocks, position)],
          removed |-> <<es.blocks[position]>>]
    ELSE IF contains_key(es.goals, position)
    THEN [state |-> [es EXCEPT !.goals = remove(es.goals, position)],
          removed |-> <<es.goals[position]>>]
    ELSE IF (IF es.player # None THEN es.player[1] = position ELSE FALSE)
    THEN [state |-> [es EXCEPT !.player = None],
          removed |-> <<es.player[2]>>]
    ELSE IF contains_key(es.floors, position)
    THEN [state |-> [es EXCEPT !.floors = remove(es.floors, position)],
          removed |-> <<es.floors[position]>>]
    ELSE [state |-> es, removed |-> None]

\* The state after remove_object and the Option<Entity> it returns.
remove_object(es, position) ==
    IF contains_key(es.blocks, position)
    THEN [state |-> [es EXCEPT !.blocks = remove(es.blocks, position)],
          removed |-> <<es.blocks[position]>>]
    ELSE IF contains_key(es.goals, position)
    THEN [state |-> [es EXCEPT !.goals = remove(es.goals, position)],
          removed |-> <<es.goals[position]>>]
    ELSE IF (IF es.player # None THEN es.player[1] = position ELSE FALSE)
    THEN [state |-> [es EXCEPT !.player = None],
          removed |-> <<es.player[2]>>]
    ELSE [state |-> es, removed |-> None]

\* ---------------------------------------------------------------- serialize
SetMin(S) == CHOOSE m \in S : \A n \in S : m <= n
SetMax(S) == CHOOSE m \in S : \A n \in S : m >= n

wall_positions(es) == DOMAIN es.walls
min_x(es) == SetMin({p.x : p \in wall_positions(es)})
max_x(es) == SetMax({p.x : p \in wall_positions(es)})
min_y(es) == SetMin({p.y : p \in wall_positions(es)})
max_y(es) == SetMax({p.y : p \in wall_positions(es)})

\* Variant: the grid is one column short.
EmptyLevel_narrow(width, height) ==
    [r \in 0..(height - 1) |-> [c \in 0..(width - 2) |-> 0]]

\* vec![vec![0; 1 + max_x - min_x]; 1 + max_y - min_y], rows and columns from 0.
EmptyLevel(width, height) ==
    [r \in 0..(height - 1) |-> [c \in 0..(width - 1) |-> 0]]

\* level[(p.y - min_y) as usize][(p.x - min_x) as usize] is inside the grid:
\* a negative difference casts to a huge usize and is out of range as well.
InGrid(es, p) ==
    /\ p.y - min_y(es) \in 0..(max_y(es) - min_y(es))
    /\ p.x - min_x(es) \in 0..(max_x(es) - min_x(es))

\* One painting loop: level[(p.y - y0)][(p.x - x0)] = value for every p.
Paint(level, positions, value, x0, y0) ==
    [r \in DOMAIN level |->
        [c \in DOMAIN level[r] |->
            IF Pos(c + x0, r + y0) \in positions THEN value ELSE level[r][c]]]

player_positions(es) == IF es.player = None THEN {} ELSE {es.player[1]}

\* serialize panics: unwrap of the min of no walls, or an index out of range.
serialize_panics(es) ==
    IF wall_positions(es) = {} THEN TRUE
    ELSE \E p \in DOMAIN es.goals \cup DOMAIN es.blocks \cup player_positions(es) :
             ~InGrid(es, p)

\* Variant: the blocks are painted before the goals.
serialize_goals_over_blocks(es) ==
    LET x0 == min_x(es)
        x1 == max_x(es)
        y0 == min_y(es)
        y1 == max_y(es)
        level0 == EmptyLevel(1 + x1 - x0, 1 + y1 - y0)
        level1 == Paint(level0, wall_positions(es), 8, x0, y0)
        level2 == Paint(level1, DOMAIN es.blocks, 2, x0, y0)
        level3 == Paint(level2, DOMAIN es.goals, 4, x0, y0)
        level4 == Paint(level3, player_positions(es), 1, x0, y0)
    IN  level4

serialize(es) ==
    LET x0 == min_x(es)
        x1 == max_x(es)
        y0 == min_y(es)
        y1 == max_y(es)
        level0 == EmptyLevel(1 + x1 - x0, 1 + y1 - y0)
        level1 == Paint(level0, wall_positions(es), 8, x0, y0)
        level2 == Paint(level1, DOMAIN es.goals, 4, x0, y0)
        level3 == Paint(level2, DOMAIN es.blocks, 2, x0, y0)
        level4 == Paint(level3, player_positions(es), 1, x0, y0)
    IN  level4

\* ------------------------------------------------------------------- Timer
NewTimer == [elapsed |-> 0, finished |-> FALSE]

\* Timer::tick for TimerMode::Once
tick(timer, delta) ==
    LET e == IF timer.elapsed + delta >= TimerDuration
             THEN TimerDuration ELSE timer.elapsed + delta
    IN  [elapsed |-> e, finished |-> e >= TimerDuration]

\* Timer::reset
reset(timer) == [elapsed |-> 0, finished |-> FALSE]

\* -------------------------------------------------------------------- Init
\* After OnEnter(GameState::Editing): remove_level emptied the world, then
\* show_cursor spawned the camera and the cursor and inserted the resource.
CameraEntity == 0
CursorEntity == 1

Init ==
    /\ editing_state = DefaultEditingState
    /\ cursor = [action_timer |-> NewTimer, translation |-> <<0, 0>>]
    /\ entities = {CameraEntity, CursorEntity}
    /\ next_entity = 2
    /\ dbg = None
    /\ despawned = {}
    /\ panicked = FALSE
    /\ pending = {}

\* ------------------------------------------------------- handle_edit_input
\* The movement the arrow keys ask for.
movement(keys) ==
    IF "Up" \in keys THEN <<0, -1>>
    ELSE IF "Down" \in keys THEN <<0, 1>>
    ELSE IF "Left" \in keys THEN <<-1, 0>>
    ELSE IF "Right" \in keys THEN <<1, 0>>
    ELSE None

\* cursor_position once the movement is applied.
cursor_position(keys) ==
    IF movement(keys) # None
    THEN add(from_translation(cursor.translation), movement(keys)[1], movement(keys)[2])
    ELSE from_translation(cursor.translation)

\* The cursor after "if let Some(..) = movement" and an optional later reset.
MovedCursor(keys, acted) ==
    [action_timer |-> IF movement(keys) # None \/ acted
                      THEN reset(cursor.action_timer) ELSE cursor.action_timer,
     translation |-> IF movement(keys) # None
                     THEN to_translation(cursor_position(keys))
                     ELSE cursor.translation]

OnBoard(position) == position.x \in 0..MaxX /\ position.y \in 0..MaxY

\* The cells of the board the cursor can reach.
BoardCells == {Pos(x, y) : x \in 0..MaxX, y \in 0..MaxY}

\* Variant: the three offsets to the east are missing from the list.
wall_combinations_no_east ==
    << <<-1, -1>>, <<-1, 0>>, <<-1, 1>>, <<0, -1>>, <<0, 1>> >>

\* Variant: the offset (1, 0) is written (2, 0).
wall_combinations_far_east ==
    << <<-1, -1>>, <<-1, 0>>, <<-1, 1>>, <<0, -1>>,
       <<0, 1>>, <<1, -1>>, <<2, 0>>, <<1, 1>> >>

\* Variant: the offset (1, 1) is missing from the list.
wall_combinations_without_corner ==
    << <<-1, -1>>, <<-1, 0>>, <<-1, 1>>, <<0, -1>>,
       <<0, 1>>, <<1, -1>>, <<1, 0>> >>

wall_combinations ==
    << <<-1, -1>>, <<-1, 0>>, <<-1, 1>>, <<0, -1>>,
       <<0, 1>>, <<1, -1>>, <<1, 0>>, <<1, 1>> >>

\* Variant: a wall is created on every neighbour that is not a floor, over a
\* wall that is already there.
wall_step_overwrites(floors, walls, id, wall_position) ==
    IF ~contains_key(floors, wall_position)
    THEN [walls |-> insert(walls, wall_position, id), next |-> id + 1]
    ELSE [walls |-> walls, next |-> id]

\* Variant: no wall is created right of a cell that already has a wall.
wall_step_skips_beside_wall(floors, walls, id, wall_position) ==
    IF /\ ~contains_key(floors, wall_position)
       /\ ~contains_key(walls, wall_position)
       /\ ~contains_key(walls, add(wall_position, -1, 0))
    THEN [walls |-> insert(walls, wall_position, id), next |-> id + 1]
    ELSE [walls |-> walls, next |-> id]

\* One pass of the neighbour loop body: a wall with the entity id is created at
\* wall_position unless a floor or a wall is there.
wall_step(floors, walls, id, wall_position) ==
    IF ~contains_key(floors, wall_position) /\ ~contains_key(walls, wall_position)
    THEN [walls |-> insert(walls, wall_position, id), next |-> id + 1]
    ELSE [walls |-> walls, next |-> id]

\* The neighbour loop from offset i on: walls holds the map so far and id the
\* next entity id; the result is the final map and the next id.
RECURSIVE WallLoop(_, _, _, _, _)
WallLoop(i, floors, walls, id, position) ==
    IF i > Len(wall_combinations) THEN [walls |-> walls, next |-> id]
    ELSE LET wall_position ==
                 add(position, wall_combinations[i][1], wall_combinations[i][2])
             stepped == wall_step(floors, walls, id, wall_position)
         IN  WallLoop(i + 1, floors, stepped.walls, stepped.next, position)

\* Variant: the goals map is cleared along the way.
place_floor_drops_goals(es, position, floor_entity) ==
    LET floors == insert(es.floors, position, floor_entity)
        walls1 == IF contains_key(es.walls, position)
                  THEN remove(es.walls, position) ELSE es.walls
        looped == WallLoop(1, floors, walls1, floor_entity + 1, position)
    IN  [state |-> [es EXCEPT !.floors = floors, !.walls = looped.walls,
                              !.goals = EmptyMap],
         next |-> looped.next,
         despawned |-> IF contains_key(es.walls, position)
                       THEN {es.walls[position]} ELSE {}]

\* Variant: the wall under the new floor leaves the map and is not despawned.
place_floor_no_despawn(es, position, floor_entity) ==
    LET floors == insert(es.floors, position, floor_entity)
        walls1 == IF contains_key(es.walls, position)
                  THEN remove(es.walls, position) ELSE es.walls
        looped == WallLoop(1, floors, walls1, floor_entity + 1, position)
    IN  [state |-> [es EXCEPT !.floors = floors, !.walls = looped.walls],
         next |-> looped.next,
         despawned |-> {}]

\* Variant: a wall under the new floor is left in the map.
place_floor_keeps_wall(es, position, floor_entity) ==
    LET floors == insert(es.floors, position, floor_entity)
        looped == WallLoop(1, floors, es.walls, floor_entity + 1, position)
    IN  [state |-> [es EXCEPT !.floors = floors, !.walls = looped.walls],
         next |-> looped.next,
         despawned |-> IF contains_key(es.walls, position)
                       THEN {es.walls[position]} ELSE {}]

\* The Z branch on the state es, the floor taking the entity id floor_entity.
place_floor(es, position, floor_entity) ==
    LET floors == insert(es.floors, position, floor_entity)
        walls1 == IF contains_key(es.walls, position)
                  THEN remove(es.walls, position) ELSE es.walls
        looped == WallLoop(1, floors, walls1, floor_entity + 1, position)
    IN  [state |-> [es EXCEPT !.floors = floors, !.walls = looped.walls],
         next |-> looped.next,
         despawned |-> IF contains_key(es.walls, position)
                       THEN {es.walls[position]} ELSE {}]

\* dbg!(editing_state.serialize()) when E is pressed.
Dbg(keys) == IF "E" \in keys THEN serialize(editing_state) ELSE None

\* The system runs (no panic has ended the app) and gets past the dbg! line.
Frame(keys) ==
    /\ ~panicked
    /\ ~("E" \in keys /\ serialize_panics(editing_state))

\* E is pressed and serialize panics: the system unwinds before anything else.
SerializePanic(keys) ==
    /\ "E" \in keys
    /\ ~panicked
    /\ serialize_panics(editing_state)
    /\ panicked' = TRUE
    /\ dbg' = None
    /\ despawned' = {}
    /\ UNCHANGED <<editing_state, cursor, entities, next_entity, pending>>

\* The cooldown has not finished: tick and return. Of the keys only E is read
\* on this path, so the action takes e_pressed = keyboard_input.pressed(E).
Cooldown(e_pressed, delta) ==
    /\ ~panicked
    /\ ~(e_pressed /\ serialize_panics(editing_state))
    /\ ~cursor.action_timer.finished
    /\ cursor' = [cursor EXCEPT !.action_timer = tick(cursor.action_timer, delta)]
    /\ dbg' = IF e_pressed THEN serialize(editing_state) ELSE None
    /\ despawned' = {}
    /\ UNCHANGED <<editing_state, entities, next_entity, panicked, pending>>

Ready(keys) ==
    /\ cursor.action_timer.finished
    /\ Frame(keys)
    /\ OnBoard(cursor_position(keys))

\* Variant: the X branch is an "if" of its own, run after the Z branch.
PlaceFloor_then_block(keys) ==
    /\ "Z" \in keys
    /\ Ready(keys)
    /\ ~contains_key(editing_state.floors, cursor_position(keys))
    /\ LET placed == place_floor(editing_state, cursor_position(keys), next_entity)
           blocked == "X" \in keys /\ can_place(placed.state, cursor_position(keys))
           last == IF blocked THEN placed.next + 1 ELSE placed.next
       IN  /\ last <= MaxEntities
           /\ editing_state' =
                 IF blocked
                 THEN [placed.state EXCEPT
                         !.blocks = insert(placed.state.blocks,
                                           cursor_position(keys), placed.next)]
                 ELSE placed.state
           /\ next_entity' = last
           /\ entities' = (entities \cup (next_entity..(last - 1)))
                              \ placed.despawned
           /\ despawned' = placed.despawned
    /\ cursor' = MovedCursor(keys, TRUE)
    /\ dbg' = Dbg(keys)
    /\ UNCHANGED <<panicked, pending>>

\* Z on a cell without a floor.
PlaceFloor(keys) ==
    /\ "Z" \in keys
    /\ Ready(keys)
    /\ ~contains_key(editing_state.floors, cursor_position(keys))
    /\ LET placed == place_floor(editing_state, cursor_position(keys), next_entity)
       IN  /\ placed.next <= MaxEntities
           /\ editing_state' = placed.state
           /\ next_entity' = placed.next
           /\ entities' = (entities \cup (next_entity..(placed.next - 1)))
                              \ placed.despawned
           /\ despawned' = placed.despawned
    /\ cursor' = MovedCursor(keys, TRUE)
    /\ dbg' = Dbg(keys)
    /\ UNCHANGED <<panicked, pending>>

ZTaken(keys) ==
    "Z" \in keys /\ ~contains_key(editing_state.floors, cursor_position(keys))

\* X on a cell that can take an occupant.
PlaceBlock(keys) ==
    /\ "X" \in keys
    /\ Ready(keys)
    /\ ~ZTaken(keys)
    /\ can_place(editing_state, cursor_position(keys))
    /\ next_entity < MaxEntities
    /\ editing_state' = [editing_state EXCEPT
           !.blocks = insert(editing_state.blocks, cursor_position(keys), next_entity)]
    /\ entities' = entities \cup {next_entity}
    /\ despawned' = {}
    /\ next_entity' = next_entity + 1
    /\ cursor' = MovedCursor(keys, TRUE)
    /\ dbg' = Dbg(keys)
    /\ UNCHANGED <<panicked, pending>>

XTaken(keys) == "X" \in keys /\ can_place(editing_state, cursor_position(keys))

\* C on a cell that can take an occupant.
PlaceGoal(keys) ==
    /\ "C" \in keys
    /\ Ready(keys)
    /\ ~ZTaken(keys) /\ ~XTaken(keys)
    /\ can_place(editing_state, cursor_position(keys))
    /\ next_entity < MaxEntities
    /\ editing_state' = [editing_state EXCEPT
           !.goals = insert(editing_state.goals, cursor_position(keys), next_entity)]
    /\ entities' = entities \cup {next_entity}
    /\ despawned' = {}
    /\ next_entity' = next_entity + 1
    /\ cursor' = MovedCursor(keys, TRUE)
    /\ dbg' = Dbg(keys)
    /\ UNCHANGED <<panicked, pending>>

CTaken(keys) == "C" \in keys /\ can_place(editing_state, cursor_position(keys))

\* Variant: the previous player entity is not despawned.
PlacePlayer_no_despawn(keys) ==
    /\ "V" \in keys
    /\ Ready(keys)
    /\ ~ZTaken(keys) /\ ~XTaken(keys) /\ ~CTaken(keys)
    /\ can_place(editing_state, cursor_position(keys))
    /\ next_entity < MaxEntities
    /\ editing_state' = [editing_state EXCEPT
           !.player = <<cursor_position(keys), next_entity>>]
    /\ despawned' = {}
    /\ entities' = entities \cup {next_entity}
    /\ next_entity' = next_entity + 1
    /\ cursor' = MovedCursor(keys, TRUE)
    /\ dbg' = Dbg(keys)
    /\ UNCHANGED <<panicked, pending>>

\* V on a cell that can take an occupant: the previous player is despawned.
PlacePlayer(keys) ==
    /\ "V" \in keys
    /\ Ready(keys)
    /\ ~ZTaken(keys) /\ ~XTaken(keys) /\ ~CTaken(keys)
    /\ can_place(editing_state, cursor_position(keys))
    /\ next_entity < MaxEntities
    /\ editing_state' = [editing_state EXCEPT
           !.player = <<cursor_position(keys), next_entity>>]
    /\ despawned' = IF editing_state.player # None
                    THEN {editing_state.player[2]} ELSE {}
    /\ entities' = (entities \cup {next_entity}) \ despawned'
    /\ next_entity' = next_entity + 1
    /\ cursor' = MovedCursor(keys, TRUE)
    /\ dbg' = Dbg(keys)
    /\ UNCHANGED <<panicked, pending>>

VTaken(keys) == "V" \in keys /\ can_place(editing_state, cursor_position(keys))

\* S: remove_object, and despawn what it returned.
RemoveObject(keys) ==
    /\ "S" \in keys
    /\ Ready(keys)
    /\ ~ZTaken(keys) /\ ~XTaken(keys) /\ ~CTaken(keys) /\ ~VTaken(keys)
    /\ LET res == remove_object(editing_state, cursor_position(keys))
       IN  /\ editing_state' = res.state
           /\ despawned' = {res.removed[i] : i \in DOMAIN res.removed}
           /\ entities' = entities \ despawned'
    /\ cursor' = MovedCursor(keys, FALSE)
    /\ dbg' = Dbg(keys)
    /\ UNCHANGED <<next_entity, panicked, pending>>

\* No branch of the if/else-if chain is taken: only the movement, if any.
NoCommand(keys) ==
    /\ "S" \notin keys
    /\ Ready(keys)
    /\ ~ZTaken(keys) /\ ~XTaken(keys) /\ ~CTaken(keys) /\ ~VTaken(keys)
    /\ cursor' = MovedCursor(keys, FALSE)
    /\ dbg' = Dbg(keys)
    /\ despawned' = {}
    /\ UNCHANGED <<editing_state, entities, next_entity, panicked, pending>>

Next ==
    \/ \E keys \in KeySets : SerializePanic(keys)
    \/ \E e_pressed \in {("E" \in keys) : keys \in KeySets}, delta \in Deltas :
           Cooldown(e_pressed, delta)
    \/ \E keys \in KeySets : PlaceFloor(keys)
    \/ \E keys \in KeySets : PlaceBlock(keys)
    \/ \E keys \in KeySets : PlaceGoal(keys)
    \/ \E keys \in KeySets : PlacePlayer(keys)
    \/ \E keys \in KeySets : RemoveObject(keys)
    \/ \E keys \in KeySets : NoCommand(keys)

Spec == Init /\ [][Next]_vars

\* ------------------------------------------- the methods on arbitrary states
\* can_place, remove_object and serialize are methods of EditingState and take
\* any value of the struct, also one no sequence of frames produces (a cell
\* with several occupants, an occupant outside the walls). SpecAny starts from
\* any EditingState over a few cells and calls the methods on it.
AnyCell(k) == Pos(k % 2, ((k + 1) \div 2) % 2)
AnyCells == {AnyCell(k) : k \in 0..(MaxCells - 1)}
AnyIndex(position) == CHOOSE k \in 0..(MaxCells - 1) : AnyCell(k) = position

\* A distinct entity for every (map, cell) pair; kind 0..4 is floors, walls,
\* blocks, goals, player.
AnyEntity(kind, position) == 2 + kind * MaxCells + AnyIndex(position)
AnyMap(kind, cells) == [q \in cells |-> AnyEntity(kind, q)]

\* Floors and walls are drawn apart, as the Z branch keeps them; the occupant
\* maps and the player slot are drawn freely.
AnyGrounds ==
    {fw \in (SUBSET AnyCells) \X (SUBSET AnyCells) : fw[1] \cap fw[2] = {}}

AnyStates ==
    {[floors |-> AnyMap(0, fw[1]), walls |-> AnyMap(1, fw[2]),
      blocks |-> AnyMap(2, b), goals |-> AnyMap(3, g), player |-> pl] :
        fw \in AnyGrounds, b \in SUBSET AnyCells, g \in SUBSET AnyCells,
        pl \in {None} \cup {<<q, AnyEntity(4, q)>> : q \in AnyCells}}

StoredEntities(es) ==
    {es.floors[q] : q \in DOMAIN es.floors} \cup {es.walls[q] : q \in DOMAIN es.walls}
        \cup {es.blocks[q] : q \in DOMAIN es.blocks}
        \cup {es.goals[q] : q \in DOMAIN es.goals}
        \cup (IF es.player = None THEN {} ELSE {es.player[2]})

InitAny ==
    /\ editing_state \in AnyStates
    /\ cursor = [action_timer |-> NewTimer, translation |-> <<0, 0>>]
    /\ entities = {CameraEntity, CursorEntity} \cup StoredEntities(editing_state)
    /\ next_entity = 2 + 5 * MaxCells
    /\ dbg = None
    /\ despawned = {}
    /\ panicked = FALSE
    /\ pending = {}

\* dbg!(editing_state.serialize()) on the state as it is.
CallSerialize ==
    /\ ~panicked
    /\ IF serialize_panics(editing_state)
       THEN panicked' = TRUE /\ dbg' = None
       ELSE panicked' = FALSE /\ dbg' = serialize(editing_state)
    /\ despawned' = {}
    /\ UNCHANGED <<editing_state, cursor, entities, next_entity, pending>>

\* remove_object(position), the returned entity despawned as the S branch does.
CallRemoveObject(position) ==
    /\ ~panicked
    /\ LET res == remove_object(editing_state, position)
       IN  /\ editing_state' = res.state
           /\ despawned' = {res.removed[i] : i \in DOMAIN res.removed}
           /\ entities' = entities \ despawned'
    /\ dbg' = None
    /\ UNCHANGED <<cursor, next_entity, panicked, pending>>

NextAny ==
    \/ CallSerialize
    \/ \E position \in AnyCells : CallRemoveObject(position)

SpecAny == InitAny /\ [][NextAny]_vars

\* ------------------------------------------ the neighbour loop in any order
\* The editing states the loop is run from, each with the next entity id: the
\* empty editor, and the editor with one floor (and its walls) on a board cell.
OrderBases ==
    {[es |-> DefaultEditingState, next |-> 2]}
    \cup {[es |-> place_floor(DefaultEditingState, q, 2).state,
           next |-> place_floor(DefaultEditingState, q, 2).next] : q \in BoardCells}

\* The Z branch on a base at the cell position, up to the neighbour loop: the
\* timer is reset, the floor is in the map, the wall of the cell is gone, and
\* all of wall_combinations is still to visit.
OrderStart(base, position) ==
    /\ editing_state =
          [base.es EXCEPT
             !.floors = insert(base.es.floors, position, base.next),
             !.walls = IF contains_key(base.es.walls, position)
                       THEN remove(base.es.walls, position) ELSE base.es.walls]
    /\ cursor = [action_timer |-> reset(NewTimer),
                 translation |-> to_translation(position)]
    /\ entities = (({CameraEntity, CursorEntity} \cup StoredEntities(base.es))
                     \cup {base.next})
                   \ (IF contains_key(base.es.walls, position)
                      THEN {base.es.walls[position]} ELSE {})
    /\ next_entity = base.next + 1
    /\ dbg = None
    /\ despawned = IF contains_key(base.es.walls, position)
                   THEN {base.es.walls[position]} ELSE {}
    /\ panicked = FALSE
    /\ pending = DOMAIN wall_combinations

InitOrder ==
    \E base \in OrderBases :
        \E position \in BoardCells \ DOMAIN base.es.floors :
            OrderStart(base, position)

\* The loop body on the i-th offset of wall_combinations, taken in any order.
VisitNeighbour(i) ==
    /\ i \in pending
    /\ LET position == from_translation(cursor.translation)
           wall_position ==
               add(position, wall_combinations[i][1], wall_combinations[i][2])
           stepped == wall_step(editing_state.floors, editing_state.walls,
                                next_entity, wall_position)
       IN  /\ editing_state' = [editing_state EXCEPT !.walls = stepped.walls]
           /\ next_entity' = stepped.next
           /\ entities' = entities \cup (next_entity .. (stepped.next - 1))
    /\ pending' = pending \ {i}
    /\ UNCHANGED <<cursor, dbg, despawned, panicked>>

NextOrder == \E i \in DOMAIN wall_combinations : VisitNeighbour(i)

SpecOrder == InitOrder /\ [][NextOrder]_vars

\* ================================================================= claims
\* Vocabulary of the claims, stated on the maps themselves.
Floors == DOMAIN editing_state.floors
Walls == DOMAIN editing_state.walls
Blocks == DOMAIN editing_state.blocks
Goals == DOMAIN editing_state.goals
PlayerCells == IF editing_state.player = None THEN {} ELSE {editing_state.player[1]}
WallEntities == {editing_state.walls[q] : q \in Walls}

Neighbours8(p) ==
    {Pos(p.x + dx, p.y + dy) : dx \in -1..1, dy \in -1..1} \ {p}

\* The cell holds no floor, or holds a block, a goal or the player.
NotPlaceable(es, p) ==
    IF p \notin DOMAIN es.floors THEN TRUE
    ELSE IF p \in DOMAIN es.blocks \cup DOMAIN es.goals THEN TRUE
    ELSE IF es.player = None THEN FALSE
    ELSE es.player[1] = p

\* One run of handle_edit_input with the keys held down.
FrameWith(keys) ==
    \/ SerializePanic(keys)
    \/ \E delta \in Deltas : Cooldown("E" \in keys, delta)
    \/ PlaceFloor(keys)
    \/ PlaceBlock(keys)
    \/ PlaceGoal(keys)
    \/ PlacePlayer(keys)
    \/ RemoveObject(keys)
    \/ NoCommand(keys)

ArrowKeys == {"Up", "Down", "Left", "Right"}

\* One of the keys X, C, V alone, or with one arrow key.
PlacementKeySets ==
    {{k} \cup a : k \in {"X", "C", "V"}, a \in {{}} \cup {{m} : m \in ArrowKeys}}

\* C1: in every reachable state every cell that is 8-adjacent to a floor and
\* is not itself a floor holds a wall (so after place_floor(p) every
\* neighbour of p that had neither floor nor wall has a wall).
C1_WallsAroundFloors ==
    \A f \in Floors : \A n \in Neighbours8(f) : n \notin Floors => n \in Walls

\* Two floors are placed, the second on a cell that was a wall of the first.
C1_Witness ==
    /\ Cardinality(Floors) = 2
    /\ \E f \in Floors : Neighbours8(f) \cap Floors # {}
    /\ Walls # {}

\* C2: in every reachable state no cell is in both walls and floors.
C2_WallsFloorsDisjoint == Floors \cap Walls = {}

\* The frame just run placed a floor on a wall: it despawned the wall and the
\* newest entity is a wall its neighbour loop created.
C2_Witness ==
    /\ despawned # {}
    /\ (next_entity - 1) \in WallEntities
    /\ Cardinality(Floors) >= 2

\* C3: in every reachable state no position is in two of blocks, goals and
\* the player slot.
C3_OneOccupantPerCell ==
    /\ Blocks \cap Goals = {}
    /\ PlayerCells \cap (Blocks \cup Goals) = {}

\* A block and a goal are placed, and the cursor stands on an occupied cell
\* with the cooldown over, where a further placement is refused.
C3_Witness ==
    /\ Blocks # {} /\ Goals # {}
    /\ cursor.action_timer.finished
    /\ from_translation(cursor.translation) \in Blocks \cup Goals

\* C4: a frame in which X, C or V is the one key pressed besides an arrow
\* key, on a cell that has no floor or already holds a block, a goal or the
\* player, leaves the editing state and the entities unchanged and does not
\* panic: from no reachable state can such a frame change them.
C4_RefusedPlacementIsNoOp ==
    \A keys \in PlacementKeySets :
        NotPlaceable(editing_state, cursor_position(keys))
        => ~ENABLED ( /\ FrameWith(keys)
                      /\ ~( /\ editing_state' = editing_state
                            /\ entities' = entities
                            /\ next_entity' = next_entity
                            /\ ~panicked' ) )

\* The cooldown is over and the cursor stands on the cell of the player, next
\* to a cell without a floor: X, C and V are refused on both.
C4_Witness ==
    /\ cursor.action_timer.finished
    /\ ~panicked
    /\ editing_state.player # None
    /\ from_translation(cursor.translation) \in PlayerCells
    /\ Cardinality(Floors) = 1

\* C5: a frame that puts the player on a cell leaves the one player entry at
\* the cursor; the entity of the previous player is despawned and stored
\* nowhere, one entity replaces one, and the previous cell can take an
\* occupant again when it has a floor and neither block nor goal.
C5_PlayerIsSingleton ==
    [][(editing_state'.player # None /\ editing_state'.player # editing_state.player)
        => LET old == editing_state.player
               new == editing_state'.player
           IN  /\ new[1] = from_translation(cursor'.translation)
               /\ new[2] \in entities'
               /\ old # None =>
                     /\ old[2] \notin entities'
                     /\ old[2] \notin StoredEntities(editing_state')
                     /\ entities' = (entities \cup {new[2]}) \ {old[2]}
                     /\ old[1] # new[1]
                     /\ ( /\ old[1] \in DOMAIN editing_state'.floors
                          /\ old[1] \notin DOMAIN editing_state'.blocks
                          /\ old[1] \notin DOMAIN editing_state'.goals )
                        => can_place(editing_state', old[1])]_vars

\* The frame just run moved the player: the newest entity is the player, an
\* entity was despawned, and the other floor cell is free again.
C5_Witness ==
    /\ editing_state.player # None
    /\ editing_state.player[2] = next_entity - 1
    /\ despawned # {}
    /\ \E p \in Floors : p # editing_state.player[1] /\ can_place(editing_state, p)

\* C6: serialize on an editor without walls reports a failure and does not
\* panic: no panic is ever raised while the walls map is empty.
C6_NoPanicWithoutWalls == Walls = {} => ~panicked

\* The bounding box of the walls and the value the export format gives a cell.
WallBox ==
    [x0 |-> SetMin({p.x : p \in Walls}), x1 |-> SetMax({p.x : p \in Walls}),
     y0 |-> SetMin({p.y : p \in Walls}), y1 |-> SetMax({p.y : p \in Walls})]

InWallBox(p) ==
    /\ WallBox.x0 <= p.x /\ p.x <= WallBox.x1
    /\ WallBox.y0 <= p.y /\ p.y <= WallBox.y1

CellValue(p) ==
    IF p \in PlayerCells THEN 1
    ELSE IF p \in Blocks THEN 2
    ELSE IF p \in Goals THEN 4
    ELSE IF p \in Walls THEN 8
    ELSE 0

\* C7: on any editing state with a wall and every occupant inside the box of
\* the walls, serialize returns max_y - min_y + 1 rows of max_x - min_x + 1
\* columns, the cell of row r and column c being 1 for the player at
\* (c + min_x, r + min_y), else 2 for a block, else 4 for a goal, else 8 for a
\* wall, else 0.
C7_SerializeGrid ==
    /\ ( /\ Walls # {}
         /\ \A p \in Blocks \cup Goals \cup PlayerCells : InWallBox(p) )
       => ~panicked
    /\ dbg # None =>
          /\ DOMAIN dbg = 0..(WallBox.y1 - WallBox.y0)
          /\ \A r \in DOMAIN dbg :
                /\ DOMAIN dbg[r] = 0..(WallBox.x1 - WallBox.x0)
                /\ \A c \in DOMAIN dbg[r] :
                      dbg[r][c] = CellValue(Pos(c + WallBox.x0, r + WallBox.y0))

\* A grid was returned for a state in which one cell holds a wall, a goal, a
\* block and the player, another a goal under a block, and a floor cell
\* inside the box holds nothing.
C7_Witness ==
    /\ dbg # None
    /\ Walls \cap Goals \cap Blocks \cap PlayerCells # {}
    /\ (Goals \cap Blocks) \ PlayerCells # {}
    /\ \E p \in Floors : InWallBox(p) /\ CellValue(p) = 0

Grid3x3 == [r \in 0..2 |-> [c \in 0..2 |-> IF r = 1 /\ c = 1 THEN 4 ELSE 8]]

\* C8: when the editor holds exactly one floor p with a goal on it, no block
\* and no player, the walls start at p - (1, 1) and serialize yields the 3x3
\* grid with 4 in the centre and 8 elsewhere.
C8_FloorGoalSerialize ==
    [][\A p \in Floors :
          ( /\ Floors = {p} /\ Goals = {p} /\ Blocks = {}
            /\ editing_state.player = None
            /\ dbg' # None )
          => ( /\ dbg' = Grid3x3
               /\ WallBox.x0 = p.x - 1
               /\ WallBox.y0 = p.y - 1 )]_vars

\* The frame just run printed that grid.
C8_Witness ==
    /\ dbg = Grid3x3
    /\ Cardinality(Floors) = 1 /\ Goals = Floors

\* C9: a frame that places a block, a goal or (no player existing) the player
\* on p turns can_place(p) from true to false, and remove_object(p) on the
\* state it leaves returns the new entity and gives back the state before the
\* placement, in which can_place(p) is true; a frame that removes the
\* occupant of a floor cell p despawns its entity and makes can_place(p) true.
C9_PlaceRemoveRoundTrip ==
    [][LET p == from_translation(cursor'.translation)
           undone == remove_object(editing_state', p)
       IN  /\ ( /\ next_entity' = next_entity + 1
                /\ editing_state'.floors = editing_state.floors
                /\ (editing_state.player = None
                       \/ editing_state'.player = editing_state.player) )
              => ( /\ can_place(editing_state, p)
                   /\ ~can_place(editing_state', p)
                   /\ undone.removed = <<next_entity>>
                   /\ undone.state = editing_state
                   /\ can_place(undone.state, p) )
           /\ ( /\ next_entity' = next_entity
                /\ editing_state' # editing_state )
              => ( /\ \E h \in entities : despawned' = {h} /\ h \notin entities'
                   /\ can_place(editing_state', p) )]_vars

\* The frame just run removed the newest entity, an occupant placed on the
\* cell of the cursor, which can take an occupant again.
C9_Witness ==
    /\ despawned = {next_entity - 1}
    /\ can_place(editing_state, from_translation(cursor.translation))

Without(map, p) == [q \in (DOMAIN map) \ {p} |-> map[q]]

\* C10: remove_object(p) on any editing state removes the block at p when
\* there is one and leaves a goal and the player at p in place; otherwise it
\* removes the goal and leaves the player; otherwise it removes the player;
\* it returns the entity of the entry it removed.
C10_RemovePriority ==
    [][\A p \in AnyCells :
          CallRemoveObject(p) =>
            IF p \in Blocks
            THEN /\ editing_state'.blocks = Without(editing_state.blocks, p)
                 /\ editing_state'.goals = editing_state.goals
                 /\ editing_state'.player = editing_state.player
                 /\ despawned' = {editing_state.blocks[p]}
            ELSE IF p \in Goals
            THEN /\ editing_state'.blocks = editing_state.blocks
                 /\ editing_state'.goals = Without(editing_state.goals, p)
                 /\ editing_state'.player = editing_state.player
                 /\ despawned' = {editing_state.goals[p]}
            ELSE IF p \in PlayerCells
            THEN /\ editing_state'.blocks = editing_state.blocks
                 /\ editing_state'.goals = editing_state.goals
                 /\ editing_state'.player = None
                 /\ despawned' = {editing_state.player[2]}
            ELSE TRUE]_vars

\* The block of a cell was removed and returned while the goal and the player
\* of that cell stay.
C10_Witness ==
    \E p \in AnyCells :
        /\ despawned = {AnyEntity(2, p)}
        /\ p \notin Blocks
        /\ p \in Goals
        /\ p \in PlayerCells

\* C11: remove_object(p) on any editing state leaves floors and walls as
\* they are, and every block and goal at another cell and a player standing
\* on another cell; when p holds no block, goal or player it returns none and
\* the whole state stays as it is. No call can do otherwise.
C11_RemoveFrame ==
    \A p \in AnyCells :
        ~ENABLED ( /\ CallRemoveObject(p)
                   /\ ~( /\ editing_state'.floors = editing_state.floors
                         /\ editing_state'.walls = editing_state.walls
                         /\ Without(editing_state'.blocks, p)
                               = Without(editing_state.blocks, p)
                         /\ Without(editing_state'.goals, p)
                               = Without(editing_state.goals, p)
                         /\ (p \notin PlayerCells
                               => editing_state'.player = editing_state.player)
                         /\ (p \notin Blocks \cup Goals \cup PlayerCells
                               => /\ editing_state' = editing_state
                                  /\ despawned' = {}
                                  /\ entities' = entities) ) )

\* A call removed the block of a cell whose floor stays, another cell has a
\* floor and no occupant (a call on it removes nothing), and a third cell
\* keeps its goal.
C11_Witness ==
    \E p \in AnyCells :
        /\ despawned = {AnyEntity(2, p)}
        /\ p \in Floors
        /\ \E q \in Floors \ {p} : q \notin Blocks \cup Goals \cup PlayerCells
        /\ Goals \ {p} # {}

\* C12: place_floor is idempotent. A frame with Z on a cell that has a floor
\* leaves floors, walls, blocks, goals and the player as they are and spawns
\* and despawns nothing; and running the Z branch a second time on the state
\* the first run produced gives the same floor and wall cells, creates no
\* wall and removes none.
C12_PlaceFloorIdempotent ==
    /\ cursor_position({"Z"}) \in Floors
          => ~ENABLED ( /\ FrameWith({"Z"})
                        /\ ~( /\ editing_state' = editing_state
                              /\ entities' = entities
                              /\ despawned' = {} ) )
    /\ \A p \in BoardCells \ Floors :
          LET once == place_floor(editing_state, p, next_entity)
              twice == place_floor(once.state, p, once.next)
          IN  /\ DOMAIN twice.state.floors = DOMAIN once.state.floors
              /\ DOMAIN twice.state.walls = DOMAIN once.state.walls
              /\ twice.state.walls = once.state.walls
              /\ twice.next = once.next + 1
              /\ twice.despawned = {}
              /\ twice.state.blocks = once.state.blocks
              /\ twice.state.goals = once.state.goals
              /\ twice.state.player = once.state.player

\* The floor under the cursor is the one placed last, its walls are the newest
\* entities, and the cooldown is over: a frame with Z repeats the command.
C12_Witness ==
    /\ cursor.action_timer.finished
    /\ cursor_position({"Z"}) \in Floors
    /\ Cardinality(Floors) = 2
    /\ next_entity - 1 \in WallEntities
    /\ \A q \in Floors :
          editing_state.floors[q] <= editing_state.floors[cursor_position({"Z"})]

\* The bases whose floors are the floors of the state without the cell p.
BasesBefore(p) == {base \in OrderBases : DOMAIN base.es.floors = Floors \ {p}}

\* C13: whatever the order in which the eight neighbour offsets are visited
\* within one place_floor(p), once all are visited the floor cells and the
\* wall cells are those the order of the code produces, and as many walls
\* were created.
C13_NeighbourOrderIrrelevant ==
    pending = {} =>
        LET p == from_translation(cursor.translation)
        IN  \A base \in BasesBefore(p) :
                LET coded == place_floor(base.es, p, base.next)
                IN  /\ Floors = DOMAIN coded.state.floors
                    /\ Walls = DOMAIN coded.state.walls
                    /\ next_entity = coded.next

\* A loop is over that visited the offset (1, 1) before the offset (-1, -1),
\* against the order of the code, and created walls for both.
C13_Witness ==
    /\ pending = {}
    /\ LET p == from_translation(cursor.translation)
       IN  /\ BasesBefore(p) # {}
           /\ add(p, 1, 1) \in Walls
           /\ add(p, -1, -1) \in Walls
           /\ editing_state.walls[add(p, 1, 1)] < editing_state.walls[add(p, -1, -1)]
           /\ editing_state.walls[add(p, -1, -1)] > editing_state.floors[p]

\* C15: over every step, floors only grow and no cell that is a floor holds a
\* wall afterwards; a step that changes blocks, goals or the player (a
\* placement or a removal) leaves floors and walls as they are; a step that
\* adds a floor leaves blocks, goals and the player as they are.
C15_FloorsGrowOccupantsApart ==
    [][ /\ Floors \subseteq DOMAIN editing_state'.floors
        /\ Floors \cap DOMAIN editing_state'.walls = {}
        /\ ( \/ editing_state'.blocks # editing_state.blocks
             \/ editing_state'.goals # editing_state.goals
             \/ editing_state'.player # editing_state.player )
             => /\ editing_state'.floors = editing_state.floors
                /\ editing_state'.walls = editing_state.walls
        /\ editing_state'.floors # editing_state.floors
             => /\ editing_state'.blocks = editing_state.blocks
                /\ editing_state'.goals = editing_state.goals
                /\ editing_state'.player = editing_state.player ]_vars

\* This frame a floor was placed on a wall while a goal placed earlier is on
\* the first floor.
C15_Witness ==
    /\ Cardinality(Floors) = 2
    /\ despawned # {}
    /\ \E g \in Goals : \E f \in Floors : editing_state.goals[g] < editing_state.floors[f]

\* C16: in every reachable state with a floor there are walls, and every
\* floor, block, goal and player position lies strictly inside the bounding
\* box of the walls; serialize does not panic on such a state, and a panic
\* has only happened with no floor.
C16_StrictlyInsideWallBox ==
    /\ Floors # {} =>
          /\ Walls # {}
          /\ \A p \in Floors \cup Blocks \cup Goals \cup PlayerCells :
                /\ WallBox.x0 < p.x /\ p.x < WallBox.x1
                /\ WallBox.y0 < p.y /\ p.y < WallBox.y1
          /\ ~serialize_panics(editing_state)
    /\ panicked => Floors = {}

\* Two floors, a block and the player are on the board and this frame
\* serialized them.
C16_Witness ==
    /\ Cardinality(Floors) = 2
    /\ Blocks # {}
    /\ PlayerCells # {}
    /\ dbg # None

\* The cells 8-adjacent to some floor that are not floors.
Ring(floors) == (UNION {Neighbours8(f) : f \in floors}) \ floors

\* C17: in every reachable state every wall is 8-adjacent to a floor, and the
\* walls are exactly the cells adjacent to a floor that are not floors: the
\* wall cells are a function of the floor cells, whatever the order in which
\* the floors were placed.
C17_WallsAreTheRing ==
    /\ \A w \in Walls : Neighbours8(w) \cap Floors # {}
    /\ Walls = Ring(Floors)

\* Two floors, the one at the origin placed after the other one.
C17_Witness ==
    /\ Cardinality(Floors) = 2
    /\ Pos(0, 0) \in Floors
    /\ \E f \in Floors : editing_state.floors[f] < editing_state.floors[Pos(0, 0)]

\* C18: in every reachable state every block, goal and player position is a
\* floor cell.
C18_OccupantsOnFloors ==
    Blocks \cup Goals \cup PlayerCells \subseteq Floors

\* A goal and the player are on the board, on the two floors.
C18_Witness ==
    /\ Goals # {}
    /\ PlayerCells # {}
    /\ Goals \cap PlayerCells = {}

\* The entries of the editing state, one per stored handle.
StoredCount ==
    Cardinality(Floors) + Cardinality(Walls) + Cardinality(Blocks)
        + Cardinality(Goals) + Cardinality(PlayerCells)

\* C19: in every reachable state every stored handle is a live entity, no
\* handle is stored twice, and every live entity other than the camera and
\* the cursor is stored; what a frame despawned is neither live nor stored.
C19_HandlesConsistent ==
    /\ StoredEntities(editing_state) \subseteq entities
    /\ Cardinality(StoredEntities(editing_state)) = StoredCount
    /\ entities \ {CameraEntity, CursorEntity} \subseteq StoredEntities(editing_state)
    /\ despawned \cap (entities \cup StoredEntities(editing_state)) = {}

\* A frame despawned an entity (a converted wall, a replaced player or a
\* removed occupant) in a state with two floors and the player.
C19_Witness ==
    /\ despawned # {}
    /\ Cardinality(Floors) = 2
    /\ PlayerCells # {}

\* The step runs at most one editing command.
AtMostOneCommand ==
    LET es == editing_state
        es2 == editing_state'
        grounds == es2.floors = es.floors /\ es2.walls = es.walls
    IN  \/ es2 = es
        \/ /\ Cardinality(DOMAIN es2.floors \ DOMAIN es.floors) = 1
           /\ es2.blocks = es.blocks /\ es2.goals = es.goals /\ es2.player = es.player
        \/ /\ grounds /\ es2.goals = es.goals /\ es2.player = es.player
           /\ \E p \in DOMAIN es2.blocks : Without(es2.blocks, p) = es.blocks
        \/ /\ grounds /\ es2.blocks = es.blocks /\ es2.player = es.player
           /\ \E p \in DOMAIN es2.goals : Without(es2.goals, p) = es.goals
        \/ /\ grounds /\ es2.blocks = es.blocks /\ es2.goals = es.goals
           /\ es2.player # None
        \/ /\ grounds /\ es2.goals = es.goals /\ es2.player = es.player
           /\ \E p \in DOMAIN es.blocks : Without(es.blocks, p) = es2.blocks
        \/ /\ grounds /\ es2.blocks = es.blocks /\ es2.player = es.player
           /\ \E p \in DOMAIN es.goals : Without(es.goals, p) = es2.goals
        \/ /\ grounds /\ es2.blocks = es.blocks /\ es2.goals = es.goals
           /\ es2.player = None

\* C20: every run of handle_edit_input applies at most one editing command;
\* a run with the cooldown not finished changes neither the editing state
\* nor the cursor position; every run that moves the cursor and every run
\* that places something leaves the cooldown reset.
C20_OneCommandAndCooldown ==
    [][ /\ AtMostOneCommand
        /\ ~cursor.action_timer.finished
             => /\ editing_state' = editing_state
                /\ cursor'.translation = cursor.translation
        /\ cursor'.translation # cursor.translation
             => cursor'.action_timer = NewTimer
        /\ next_entity' # next_entity
             => cursor'.action_timer = NewTimer ]_vars

\* The frames with two command keys held that the state allows.
TwoCommandFrames ==
    {ks \in SUBSET CommandKeys : Cardinality(ks) = 2 /\ ENABLED FrameWith(ks)}

\* The cursor has moved off the origin to a floor where a block, a goal and
\* the player can each be placed, a block was placed before, and the cooldown
\* is over: the frames holding X and C, X and V, and C and V each have two
\* commands to choose from, and each runs.
C20_Witness ==
    /\ cursor.translation # <<0, 0>>
    /\ cursor.action_timer.finished
    /\ Blocks # {}
    /\ can_place(editing_state, from_translation(cursor.translation))
    /\ {{"X", "C"}, {"X", "V"}, {"C", "V"}} \subseteq TwoCommandFrames

====
